---- MODULE Spec2Model ----
(***************************************************************************)
(* A model of the crawl-to-taxonomy pipeline of module-extraction-ai-agent: *)
(* the crawler (src/agents/crawler_agent.py), the link extractor           *)
(* (src/utils/html_utils.py), the chunker (src/agents/chunking_agent.py),  *)
(* the lexical deduplicator (src/agents/dedup_agent.py with                *)
(* src/utils/similarity_utils.py) and the pipeline entry point             *)
(* (src/app.py).                                                           *)
(*                                                                         *)
(* Text is modelled at the level the code reads it.  A URL is its scheme   *)
(* and the characters that follow "://"; urlparse is modelled by the       *)
(* splits it performs on those characters.  A module's name or description *)
(* is the sequence of its words.  A line of page content is its token      *)
(* count and whether it is blank.                                          *)
(***************************************************************************)
EXTENDS Integers, Sequences, FiniteSets, TLC

VARIABLES
    \* ---- CrawlerAgent (crawler_agent.py) ----
    max_pages,      \* self.max_pages
    start_urls,     \* the argument of crawl
    visited,        \* self.visited
    pages,          \* crawl's local list `pages`
    queue,          \* crawl's local list `queue`
    current_url,    \* crawl's local `current_url`
    crawl_pc,       \* position in crawl: "idle", "loop", "fetch", "done"
    gets,           \* the HTTP GETs issued by session.get, in order
    link_sets,      \* the internal_links of line 167 for each page of `pages`
    \* ---- extract_internal_links (html_utils.py) ----
    base_url,       \* the argument base_url
    anchors,        \* the anchors of soup.find_all('a', href=True) not yet looked at
    internal_links, \* the local set internal_links
    links_pc,       \* position in extract_internal_links: "idle", "loop", "done"
    \* ---- ChunkingAgent (chunking_agent.py) ----
    min_tokens,     \* self.min_tokens
    max_tokens,     \* self.max_tokens
    chunks,         \* chunk's local list `chunks`
    page,           \* the page of the loop of line 67: its url, title and content
    lines,          \* the lines of the page not yet read by the loop of line 80
    current_chunk,  \* the local list current_chunk
    current_tokens, \* the local current_tokens
    page_no,        \* how many pages the loop of line 67 has taken
    lines_read,     \* how many lines of the input have been split off so far
    chunk_pc,       \* position in chunk: "idle", "page", "line", "done"
    \* ---- DedupAgent._similarity_deduplicate (dedup_agent.py) ----
    similarity_threshold, \* self.similarity_threshold, as <<numerator, denominator>>
    modules,        \* the argument modules
    merged,         \* the local list merged
    used_indices,   \* the local set used_indices
    dd_i,           \* the index i of the outer loop (from 1)
    dd_j,           \* the index j of the inner loop (from 1)
    current_module, \* the local current_module
    run,            \* 1 for the call on the input, 2 for the call on its result
    dedup_pc,       \* position: "idle", "start", "outer", "inner", "done"
    \* ---- extract_modules (app.py) ----
    GROQ_API_KEY,   \* the environment variable: "unset", "empty" or "set"
    n_urls,         \* how many URLs the argument urls holds
    llm_client,     \* the local llm_client: "none", "ready" or "failed"
    calls,          \* the stages invoked so far, each with the size of its output
    http_requests,  \* how many HTTP requests have been issued, GET and POST
    st_messages,    \* what was shown through st.error, st.info and st.warning
    result,         \* the length of the returned list, once pipe_pc is "done"
    pipe_pc,        \* position: "idle", "init", "crawl", "clean", "chunk",
                    \* "infer", "dedup", "done", "raised"
    \* ---- ModuleAgent.infer_modules (module_agent.py) ----
    inf_chunks,     \* the argument chunks
    all_modules,    \* the local list all_modules
    inf_i,          \* the index of the chunk the running loop is at (from 1)
    llm_log,        \* the calls of generate_json: the pass and the chunk
    inf_pc,         \* position: "idle", "main", "fallback", "final", "done"
    \* ---- DedupAgent._llm_deduplicate (dedup_agent.py) ----
    p2_modules,     \* the argument modules of _llm_deduplicate
    p2_result,      \* the local list result
    p2_i,           \* where the next batch begins (from 1)
    p2_log,         \* the batches the model was asked about: batch, answer, output
    p2_pc           \* position: "idle", "batch", "done"

crawlVars == <<max_pages, start_urls, visited, pages, queue, current_url, crawl_pc, gets,
               link_sets>>

linksVars == <<base_url, anchors, internal_links, links_pc>>

chunkVars == <<min_tokens, max_tokens, chunks, page, lines, current_chunk, current_tokens,
               page_no, lines_read, chunk_pc>>

dedupVars == <<similarity_threshold, modules, merged, used_indices, dd_i, dd_j,
               current_module, run, dedup_pc>>

pipeVars == <<GROQ_API_KEY, n_urls, llm_client, calls, http_requests, st_messages, result,
              pipe_pc>>

inferVars == <<inf_chunks, all_modules, inf_i, llm_log, inf_pc>>

p2Vars == <<p2_modules, p2_result, p2_i, p2_log, p2_pc>>

vars == <<crawlVars, linksVars, chunkVars, dedupVars, pipeVars, inferVars, p2Vars>>

-----------------------------------------------------------------------------
(* Sequences of characters.                                                *)

Last(s) == s[Len(s)]

Front(s) == SubSeq(s, 1, Len(s) - 1)

\* The index of the first element of s that is in D, or Len(s) + 1.
FirstIn(s, D) ==
    IF \E i \in 1..Len(s) : s[i] \in D
    THEN CHOOSE i \in 1..Len(s) : s[i] \in D /\ \A j \in 1..(i - 1) : s[j] \notin D
    ELSE Len(s) + 1

Range(s) == {s[i] : i \in 1..Len(s)}

-----------------------------------------------------------------------------
(* urllib.parse.urlparse on "scheme://" + s.                               *)

\* The netloc ends at the first of "/", "?", "#".
NetlocOf(s) == SubSeq(s, 1, FirstIn(s, {"/", "?", "#"}) - 1)

AfterNetloc(s) == SubSeq(s, FirstIn(s, {"/", "?", "#"}), Len(s))

\* The fragment is split off at the first "#", then the query at the first "?".
BeforeFragment(t) == SubSeq(t, 1, FirstIn(t, {"#"}) - 1)

FragmentOf(t) == SubSeq(t, FirstIn(t, {"#"}) + 1, Len(t))

PathOf(t) == SubSeq(BeforeFragment(t), 1, FirstIn(BeforeFragment(t), {"?"}) - 1)

QueryOf(t) ==
    SubSeq(BeforeFragment(t), FirstIn(BeforeFragment(t), {"?"}) + 1, Len(BeforeFragment(t)))

urlparse(u) ==
    [scheme   |-> u.scheme,
     netloc   |-> NetlocOf(u.s),
     path     |-> PathOf(AfterNetloc(u.s)),
     query    |-> QueryOf(AfterNetloc(u.s)),
     fragment |-> FragmentOf(AfterNetloc(u.s))]

Url(scheme, s) == [scheme |-> scheme, s |-> s]

-----------------------------------------------------------------------------
(* CrawlerAgent._normalize_url                                             *)

\* f"{scheme}://{netloc}{path}" plus "?query" when the query is not empty.
NormalizedText(p) ==
    p.netloc \o p.path \o (IF p.query # <<>> THEN <<"?">> \o p.query ELSE <<>>)

\* The trailing slash of the whole text is removed when the path is longer than 1.
_normalize_url(u) ==
    LET p == urlparse(u)
        t == NormalizedText(p)
    IN  IF Len(p.path) > 1 /\ Last(t) = "/"
        THEN Url(p.scheme, Front(t))
        ELSE Url(p.scheme, t)

\* Lines 86-88 finding every two URLs of one domain.
_is_same_domain_always(url1, url2) == TRUE

\* Lines 86-88: the two netlocs are equal.
_is_same_domain(url1, url2) == urlparse(url1).netloc = urlparse(url2).netloc

-----------------------------------------------------------------------------
(* urllib.parse.urljoin, for the anchors of a page.  An href is its scheme  *)
(* ("" when it has none), whether "//" follows (auth), and the characters   *)
(* after that.  The paths of the model hold no "." or ".." segment.         *)

Href(scheme, auth, s) == [scheme |-> scheme, auth |-> auth, s |-> s]

\* urlparse(url, default_scheme) of an href.
HrefParse(h, default_scheme) ==
    LET t == IF h.auth THEN AfterNetloc(h.s) ELSE h.s
    IN  [scheme   |-> IF h.scheme # "" THEN h.scheme ELSE default_scheme,
         netloc   |-> IF h.auth THEN NetlocOf(h.s) ELSE <<>>,
         path     |-> PathOf(t),
         query    |-> QueryOf(t),
         fragment |-> FragmentOf(t)]

\* str.split('/')
RECURSIVE Split(_)
Split(s) ==
    IF "/" \notin Range(s)
    THEN <<s>>
    ELSE <<SubSeq(s, 1, FirstIn(s, {"/"}) - 1)>>
         \o Split(SubSeq(s, FirstIn(s, {"/"}) + 1, Len(s)))

\* '/'.join(segments)
RECURSIVE Join(_)
Join(segments) ==
    IF segments = <<>> THEN <<>>
    ELSE IF Len(segments) = 1 THEN segments[1]
    ELSE segments[1] \o <<"/">> \o Join(Tail(segments))

RECURSIVE FilterNonEmpty(_)
FilterNonEmpty(segments) ==
    IF segments = <<>> THEN <<>>
    ELSE (IF segments[1] # <<>> THEN <<segments[1]>> ELSE <<>>)
         \o FilterNonEmpty(Tail(segments))

\* segments[1:-1] = filter(None, segments[1:-1])
FilterInterior(segments) ==
    IF Len(segments) <= 2 THEN segments
    ELSE <<segments[1]>>
         \o FilterNonEmpty(SubSeq(segments, 2, Len(segments) - 1))
         \o <<Last(segments)>>

\* The path of urljoin's result when the href has a path and no netloc.
ResolvePath(bpath, path) ==
    LET all        == Split(bpath)
        base_parts == IF Last(all) # <<>> THEN Front(all) ELSE all
        segments   == IF path[1] = "/"
                      THEN Split(path)
                      ELSE FilterInterior(base_parts \o Split(path))
    IN  IF Join(segments) = <<>> THEN <<"/">> ELSE Join(segments)

uses_relative == {"", "http", "https"}

\* urlparse(urljoin(base, href)): the components of the joined URL.
urljoin(base, h) ==
    LET b == urlparse(base)
        p == HrefParse(h, b.scheme)
    IN  IF h.scheme = "" /\ ~h.auth /\ h.s = <<>>
        THEN b                                   \* if not url: return base
        ELSE IF p.scheme # b.scheme \/ p.scheme \notin uses_relative
        THEN HrefParse(h, "")                    \* return url
        ELSE IF p.netloc # <<>>
        THEN p
        ELSE IF p.path = <<>>
        THEN [scheme   |-> p.scheme,
              netloc   |-> b.netloc,
              path     |-> b.path,
              query    |-> IF p.query = <<>> THEN b.query ELSE p.query,
              fragment |-> p.fragment]
        ELSE [scheme   |-> p.scheme,
              netloc   |-> b.netloc,
              path     |-> ResolvePath(b.path, p.path),
              query    |-> p.query,
              fragment |-> p.fragment]

\* urlsplit raises ValueError("Invalid IPv6 URL") for a netloc that holds one
\* of "[" and "]" without the other.
InvalidNetloc(netloc) == ("[" \in Range(netloc)) # ("]" \in Range(netloc))

\* urljoin(base, href) raises: urlparse(href) is computed first.
urljoin_raises(h) == h.auth /\ InvalidNetloc(NetlocOf(h.s))

-----------------------------------------------------------------------------
(* html_utils.extract_internal_links.  The HTML of a page is modelled by    *)
(* the set of the hrefs of its anchors.                                     *)

\* The test of line 34: same netloc, or no netloc and a path.
IsInternal(parsed, base_domain) ==
    parsed.netloc = base_domain \/ (parsed.netloc = <<>> /\ parsed.path # <<>>)

\* Lines 36-38: the text of clean_url after "://", and its scheme.
CleanUrl(parsed, base_scheme, base_domain) ==
    Url(IF parsed.scheme # "" THEN parsed.scheme ELSE base_scheme,
        (IF parsed.netloc # <<>> THEN parsed.netloc ELSE base_domain)
        \o parsed.path
        \o (IF parsed.query # <<>> THEN <<"?">> \o parsed.query ELSE <<>>))

\* clean_url.startswith(('http://', 'https://'))
IsHttp(u) == u.scheme \in {"http", "https"}

extract_internal_links(hrefs, base) ==
    LET base_domain == urlparse(base).netloc
        base_scheme == urlparse(base).scheme
    IN  {CleanUrl(urljoin(base, h), base_scheme, base_domain) :
            h \in {g \in hrefs :
                     /\ IsInternal(urljoin(base, g), base_domain)
                     /\ IsHttp(CleanUrl(urljoin(base, g), base_scheme, base_domain))}}

\* Line 30 raises for one of the anchors: nothing in extract_internal_links
\* catches it.
extract_internal_links_raises(hrefs) == \E h \in hrefs : urljoin_raises(h)

-----------------------------------------------------------------------------
(* The inputs of the crawler: seed URLs, and the anchors a fetched page may *)
(* hold.                                                                   *)

MaxSeeds == 2

MaxMaxPages == 2

SeedUrls ==
    { Url("http",  <<"a">>),                      \* http://a
      Url("http",  <<"a", "/", "b">>),            \* http://a/b
      Url("http",  <<"a", "/", "b", "/", "/">>),  \* http://a/b//
      Url("http",  <<"a", "/", "b", "#", "b">>),  \* http://a/b#b
      Url("http",  <<"b", "/", "b">>) }           \* http://b/b

SeedLists == UNION {[1..n -> SeedUrls] : n \in 0..MaxSeeds}

\* response.text: empty, or a document with the hrefs of its anchors.
Html(hrefs) == [empty |-> FALSE, hrefs |-> hrefs]

EmptyHtml == [empty |-> TRUE, hrefs |-> {}]

Htmls ==
    { EmptyHtml,
      Html({}),
      \* /b and /b//
      Html({Href("", FALSE, <<"/", "b">>), Href("", FALSE, <<"/", "b", "/", "/">>)}),
      \* #b and https:b
      Html({Href("", FALSE, <<"#", "b">>), Href("https", FALSE, <<"b">>)}),
      \* //b/b and a
      Html({Href("", TRUE, <<"b", "/", "b">>), Href("", FALSE, <<"a">>)}),
      \* http://a/b?b
      Html({Href("http", TRUE, <<"a", "/", "b", "?", "b">>)}),
      \* //[
      Html({Href("", TRUE, <<"[">>)}) }

\* The orders in which a Python set may be iterated.
Orderings(S) == {o \in [1..Cardinality(S) -> S] : Range(o) = S}

-----------------------------------------------------------------------------
(* CrawlerAgent.crawl and CrawlerAgent.fetch_page                          *)

\* Lines 144-147: the seeds are normalized and appended when not visited.
RECURSIVE SeedQueue(_, _)
SeedQueue(urls, seen) ==
    IF urls = <<>> THEN <<>>
    ELSE (IF _normalize_url(Head(urls)) \notin seen
          THEN <<_normalize_url(Head(urls))>> ELSE <<>>)
         \o SeedQueue(Tail(urls), seen)

\* fetch_page without the test of line 102.
AlreadyVisitedNever(normalized_url) == FALSE

\* Line 102: fetch_page answers "skipped" for a visited URL.
AlreadyVisited(normalized_url) == normalized_url \in visited

\* Lines 175-177: the test a link passes to be queued.
ShouldEnqueue(normalized_link, seen, q, current) ==
    /\ normalized_link \notin seen
    /\ normalized_link \notin Range(q)
    /\ _is_same_domain(normalized_link, current)

\* Lines 173-178: the links are queued in the order the set is iterated.
RECURSIVE EnqueueLinks(_, _, _, _)
EnqueueLinks(links, seen, q, current) ==
    IF links = <<>> THEN q
    ELSE EnqueueLinks(
            Tail(links), seen,
            IF ShouldEnqueue(_normalize_url(Head(links)), seen, q, current)
            THEN Append(q, _normalize_url(Head(links)))
            ELSE q,
            current)

\* The loop test with the budget off by one.
LoopContinuesOffByOne == queue # <<>> /\ Len(pages) <= max_pages

\* A module dictionary.
Module(name, description, submodules) ==
    [module |-> name, Description |-> description, Submodules |-> submodules]

\* The deduplicator at rest.
DedupIdle ==
    /\ similarity_threshold = <<0, 1>>
    /\ modules = <<>>
    /\ merged = <<>>
    /\ used_indices = {}
    /\ dd_i = 0
    /\ dd_j = 0
    /\ current_module = Module(<<>>, <<>>, <<>>)
    /\ run = 0
    /\ dedup_pc = "idle"

\* The chunker at rest.
ChunkIdle ==
    /\ min_tokens = 0
    /\ max_tokens = 0
    /\ chunks = <<>>
    /\ page = [url |-> "", title |-> "", content |-> <<>>]
    /\ lines = <<>>
    /\ current_chunk = <<>>
    /\ current_tokens = 0
    /\ page_no = 0
    /\ lines_read = 0
    /\ chunk_pc = "idle"

\* The extractor at rest, while another component is looked at.
LinksIdle ==
    /\ base_url = Url("", <<>>)
    /\ anchors = <<>>
    /\ internal_links = {}
    /\ links_pc = "idle"

\* The pipeline at rest.
PipeIdle ==
    /\ GROQ_API_KEY = "unset"
    /\ n_urls = 0
    /\ llm_client = "none"
    /\ calls = <<>>
    /\ http_requests = 0
    /\ st_messages = <<>>
    /\ result = 0
    /\ pipe_pc = "idle"

\* _llm_deduplicate at rest.
P2Idle ==
    /\ p2_modules = <<>>
    /\ p2_result = <<>>
    /\ p2_i = 0
    /\ p2_log = <<>>
    /\ p2_pc = "idle"

\* infer_modules at rest.
InferIdle ==
    /\ inf_chunks = <<>>
    /\ all_modules = <<>>
    /\ inf_i = 0
    /\ llm_log = <<>>
    /\ inf_pc = "idle"

\* crawl and fetch_page write the crawler's own state only.
CrawlOnly == UNCHANGED <<linksVars, chunkVars, dedupVars, pipeVars, inferVars, p2Vars>>

\* Line 155 reading the front of the queue without taking it off.
pop0_keeps(q) == q

\* Line 155: queue.pop(0) leaves the rest of the queue.
pop0(q) == Tail(q)

\* Line 154: the loop test.
LoopContinues == queue # <<>> /\ Len(pages) < max_pages

CrawlInit ==
    /\ max_pages \in 0..MaxMaxPages
    /\ start_urls = <<>>
    /\ visited = {}
    /\ pages = <<>>
    /\ queue = <<>>
    /\ current_url = Url("", <<>>)
    /\ crawl_pc = "idle"
    /\ gets = <<>>
    /\ link_sets = <<>>

\* Lines 139-151: crawl is called.
CrawlStart ==
    /\ crawl_pc = "idle"
    /\ \E urls \in SeedLists :
        /\ start_urls' = urls
        /\ queue' = SeedQueue(urls, {})
    /\ visited' = {}
    /\ pages' = <<>>
    /\ crawl_pc' = "loop"
    /\ link_sets' = <<>>
    /\ UNCHANGED <<max_pages, current_url, gets>>
    /\ CrawlOnly

\* Lines 154-158: pop the front; a visited URL is passed over.
CrawlPop ==
    /\ crawl_pc = "loop"
    /\ LoopContinues
    /\ current_url' = Head(queue)
    /\ queue' = pop0(queue)
    /\ crawl_pc' = IF Head(queue) \in visited THEN "loop" ELSE "fetch"
    /\ UNCHANGED <<max_pages, start_urls, visited, pages, gets, link_sets>>
    /\ CrawlOnly

\* Line 180: the loop ends and crawl returns pages.
CrawlReturn ==
    /\ crawl_pc = "loop"
    /\ ~LoopContinues
    /\ crawl_pc' = "done"
    /\ UNCHANGED <<max_pages, start_urls, visited, pages, queue, current_url, gets,
                   link_sets>>
    /\ CrawlOnly

\* Lines 100-103: fetch_page returns "skipped"; crawl appends nothing.
FetchSkipped ==
    /\ crawl_pc = "fetch"
    /\ AlreadyVisited(_normalize_url(current_url))
    /\ crawl_pc' = "loop"
    /\ UNCHANGED <<max_pages, start_urls, visited, pages, queue, current_url, gets,
                   link_sets>>
    /\ CrawlOnly

\* Lines 105-107, 117-122: the GET raises a RequestException.
FetchError ==
    /\ crawl_pc = "fetch"
    /\ ~AlreadyVisited(_normalize_url(current_url))
    /\ gets' = Append(gets, [url |-> _normalize_url(current_url), status |-> "error"])
    /\ crawl_pc' = "loop"
    /\ UNCHANGED <<max_pages, start_urls, visited, pages, queue, current_url, link_sets>>
    /\ CrawlOnly

\* Lines 105-116, 163-178: the GET succeeds; a page with HTML is appended and
\* its links are queued.
FetchSuccess ==
    /\ crawl_pc = "fetch"
    /\ ~AlreadyVisited(_normalize_url(current_url))
    /\ \E html \in Htmls :
        LET normalized_url == _normalize_url(current_url)
            page_data == [url |-> normalized_url, html |-> html, status |-> "success"]
        IN  /\ ~extract_internal_links_raises(html.hrefs)
            /\ gets' = Append(gets, [url |-> normalized_url, status |-> "success"])
            /\ visited' = visited \cup {normalized_url}
            /\ IF html.empty
               THEN UNCHANGED <<pages, queue, link_sets>>
               ELSE /\ pages' = Append(pages, page_data)
                    /\ link_sets' =
                         Append(link_sets, extract_internal_links(html.hrefs, current_url))
                    /\ \E order \in Orderings(extract_internal_links(html.hrefs, current_url)) :
                         queue' = EnqueueLinks(order, visited', queue, current_url)
    /\ crawl_pc' = "loop"
    /\ UNCHANGED <<max_pages, start_urls, current_url>>
    /\ CrawlOnly

\* Lines 105-116, 163-170: the GET succeeds and the page is appended, then
\* extract_internal_links raises ValueError; neither fetch_page nor crawl
\* catches it, so crawl ends with the exception.
LinkExtractionRaised ==
    /\ crawl_pc = "fetch"
    /\ ~AlreadyVisited(_normalize_url(current_url))
    /\ \E html \in Htmls :
        /\ ~html.empty
        /\ extract_internal_links_raises(html.hrefs)
        /\ LET normalized_url == _normalize_url(current_url)
               page_data == [url |-> normalized_url, html |-> html, status |-> "success"]
           IN  /\ gets' = Append(gets, [url |-> normalized_url, status |-> "success"])
               /\ visited' = visited \cup {normalized_url}
               /\ pages' = Append(pages, page_data)
    /\ crawl_pc' = "raised"
    /\ UNCHANGED <<max_pages, start_urls, queue, current_url, link_sets>>
    /\ CrawlOnly

CrawlNext ==
    \/ CrawlStart
    \/ CrawlPop
    \/ CrawlReturn
    \/ FetchSkipped
    \/ FetchError
    \/ FetchSuccess
    \/ LinkExtractionRaised

SpecCrawlInit ==
    CrawlInit /\ LinksIdle /\ ChunkIdle /\ DedupIdle /\ PipeIdle /\ InferIdle /\ P2Idle

SpecCrawl == SpecCrawlInit /\ [][CrawlNext]_vars

-----------------------------------------------------------------------------
(* Claims about the crawler, checked under SpecCrawl.                      *)

Succeeded(g) == g.status = "success"

\* C1: the pages crawl returns have pairwise different (normalized) URLs, and
\* no normalized URL is fetched successfully, that is marked visited, twice
\* within one crawl call.
C1_NoUrlTwice ==
    /\ \A i, j \in 1..Len(pages) : i # j => pages[i].url # pages[j].url
    /\ \A i, j \in 1..Len(gets) :
          (i # j /\ Succeeded(gets[i]) /\ Succeeded(gets[j])) => gets[i].url # gets[j].url
    /\ \A i \in 1..Len(gets) : Succeeded(gets[i]) => gets[i].url \in visited

\* Two different seeds that name one page after normalization were queued,
\* and the crawl returned that page.
C1_Witness ==
    /\ crawl_pc = "done"
    /\ Len(start_urls) = 2
    /\ start_urls[1] # start_urls[2]
    /\ _normalize_url(start_urls[1]) # _normalize_url(start_urls[2])
    /\ _normalize_url(_normalize_url(start_urls[1]))
         = _normalize_url(_normalize_url(start_urls[2]))
    /\ Len(pages) = 1
    /\ pages[1].url = _normalize_url(_normalize_url(start_urls[1]))

\* C2: the result never holds more than max_pages pages; no fetch is issued
\* once len(pages) equals max_pages (the last GET is the one that filled the
\* budget); with max_pages = 1 the crawl returns exactly the one page whose
\* fetch succeeded with HTML, whatever links it holds.
C2_PageBudget ==
    /\ Len(pages) <= max_pages
    /\ crawl_pc = "fetch" => Len(pages) < max_pages
    /\ (pages # <<>> /\ Len(pages) = max_pages) =>
          Last(gets) = [url |-> Last(pages).url, status |-> "success"]
    /\ (crawl_pc = "done" /\ max_pages = 1 /\ pages # <<>>) =>
          /\ Len(pages) = 1
          /\ \A i \in 1..(Len(gets) - 1) : ~Succeeded(gets[i]) \/ pages[1].url # gets[i].url

\* With max_pages = 1 the crawl returned one page and left its links queued.
C2_Witness ==
    /\ crawl_pc = "done"
    /\ max_pages = 1
    /\ Len(pages) = 1
    /\ pages[1].html.hrefs # {}
    /\ queue # <<>>

-----------------------------------------------------------------------------
(* extract_internal_links run on its own: one step per anchor.             *)

MaxAnchors == 2

BaseUrls ==
    { Url("http",  <<"a">>),                          \* http://a
      Url("http",  <<"a", "/", "b">>),                \* http://a/b
      Url("https", <<"a", "/", "b", "/">>),           \* https://a/b/
      Url("http",  <<"a", "/", "b", "?", "b">>) }     \* http://a/b?b

AnchorHrefs ==
    { Href("", FALSE, <<>>),                            \* (empty)
      Href("", FALSE, <<"/", "b">>),                    \* /b
      Href("", FALSE, <<"b", "/", "/">>),               \* b//
      Href("", FALSE, <<"#", "b">>),                    \* #b
      Href("", FALSE, <<"/", "b", "#", "b">>),          \* /b#b
      Href("", FALSE, <<"?", "a">>),                    \* ?a
      Href("", TRUE,  <<"b", "/", "b">>),               \* //b/b
      Href("http", TRUE, <<"a", "/", "b", "#", "a">>),  \* http://a/b#a
      Href("https", TRUE, <<"a", "/", "b">>),           \* https://a/b
      Href("http", FALSE, <<"b">>),                     \* http:b
      Href("https", FALSE, <<"b">>),                    \* https:b
      Href("mailto", FALSE, <<"b">>),                   \* mailto:b
      Href("", TRUE, <<"[">>) }                         \* //[

AnchorLists == UNION {[1..n -> AnchorHrefs] : n \in 0..MaxAnchors}

\* The other components at rest.
LinksOnly == UNCHANGED <<crawlVars, chunkVars, dedupVars, pipeVars, inferVars, p2Vars>>

CrawlIdle ==
    /\ max_pages = 0
    /\ start_urls = <<>>
    /\ visited = {}
    /\ pages = <<>>
    /\ queue = <<>>
    /\ current_url = Url("", <<>>)
    /\ crawl_pc = "idle"
    /\ gets = <<>>
    /\ link_sets = <<>>

\* Lines 22-26: the document is parsed and the base URL taken apart.
LinksInit ==
    /\ base_url \in BaseUrls
    /\ anchors \in AnchorLists
    /\ internal_links = {}
    /\ links_pc = "loop"

\* Lines 28-42: an anchor whose clean_url is added to the set.
AnchorKept ==
    /\ links_pc = "loop"
    /\ anchors # <<>>
    /\ ~urljoin_raises(Head(anchors))
    /\ extract_internal_links({Head(anchors)}, base_url) # {}
    /\ internal_links' = internal_links \cup extract_internal_links({Head(anchors)}, base_url)
    /\ anchors' = Tail(anchors)
    /\ UNCHANGED <<base_url, links_pc>>
    /\ LinksOnly

\* Lines 28-42: an anchor that fails the test of line 34 or of line 41.
AnchorDropped ==
    /\ links_pc = "loop"
    /\ anchors # <<>>
    /\ ~urljoin_raises(Head(anchors))
    /\ extract_internal_links({Head(anchors)}, base_url) = {}
    /\ anchors' = Tail(anchors)
    /\ UNCHANGED <<base_url, internal_links, links_pc>>
    /\ LinksOnly

\* Line 30: urljoin raises ValueError and the call ends with it.
AnchorRaised ==
    /\ links_pc = "loop"
    /\ anchors # <<>>
    /\ urljoin_raises(Head(anchors))
    /\ links_pc' = "raised"
    /\ UNCHANGED <<base_url, anchors, internal_links>>
    /\ LinksOnly

\* Line 44: return internal_links.
LinksReturn ==
    /\ links_pc = "loop"
    /\ anchors = <<>>
    /\ links_pc' = "done"
    /\ UNCHANGED <<base_url, anchors, internal_links>>
    /\ LinksOnly

LinksNext ==
    \/ AnchorKept
    \/ AnchorDropped
    \/ AnchorRaised
    \/ LinksReturn

SpecLinksInit ==
    LinksInit /\ CrawlIdle /\ ChunkIdle /\ DedupIdle /\ PipeIdle /\ InferIdle /\ P2Idle

SpecLinks == SpecLinksInit /\ [][LinksNext]_vars

\* C8: every URL extract_internal_links returns has the host of the base URL
\* and the scheme http or https, and holds no fragment, so that the set never
\* holds a URL together with a fragment variant of it.
C8_LinksInternal ==
    \A u \in internal_links :
        /\ urlparse(u).netloc = urlparse(base_url).netloc
        /\ u.scheme \in {"http", "https"}
        /\ "#" \notin Range(u.s)

-----------------------------------------------------------------------------
(* ChunkingAgent.chunk.  A line of content is the number of tokens          *)
(* _count_tokens gives it, whether it is blank (strip() leaves nothing of   *)
(* it) and whether it begins and ends with white space.  The pages of the   *)
(* input are taken as the loop of line 67 reaches them.                     *)

MaxTotalLines == 4

Line(tokens, blank) == [tokens |-> tokens, blank |-> blank, lead |-> FALSE, trail |-> FALSE]

\* A line of text with white space before and after it.
Padded(tokens) == [tokens |-> tokens, blank |-> FALSE, lead |-> TRUE, trail |-> TRUE]

\* An empty line, a short line with white space around it, a line of
\* max_tokens and a line above it.
Lines == {Line(0, TRUE), Padded(1), Line(3, FALSE), Line(4, FALSE)}

\* The (min_tokens, max_tokens) pairs of the constructor, scaled down.
TokenBudgets == {<<1, 3>>, <<2, 3>>}

PageUrls == {"u1", "u2"}

\* content.split('\n'): at least one line.
Contents(n) == UNION {[1..k -> Lines] : k \in 1..n}

\* Line 72: content.strip() is empty.
IsBlank(content) == \A i \in 1..Len(content) : content[i].blank

\* Line 81 summed: the tokens of a sequence of lines.
RECURSIVE TokenCount(_)
TokenCount(ls) == IF ls = <<>> THEN 0 ELSE Head(ls).tokens + TokenCount(Tail(ls))

\* '\n'.join(current_chunk).strip(): the blank lines at both ends go.
RECURSIVE StripLeading(_)
StripLeading(ls) ==
    IF ls = <<>> THEN <<>>
    ELSE IF Head(ls).blank THEN StripLeading(Tail(ls)) ELSE ls

RECURSIVE StripTrailing(_)
StripTrailing(ls) ==
    IF ls = <<>> THEN <<>>
    ELSE IF Last(ls).blank THEN StripTrailing(Front(ls)) ELSE ls

\* The white space that begins the first line and ends the last one goes too.
TrimEnds(ls) ==
    [k \in 1..Len(ls) |->
        [ls[k] EXCEPT !.lead  = IF k = 1 THEN FALSE ELSE @,
                      !.trail = IF k = Len(ls) THEN FALSE ELSE @]]

ChunkText(buffer) == TrimEnds(StripTrailing(StripLeading(buffer)))

\* Line 94 beginning the next chunk with nothing.
NewChunkEmpty(line) == <<>>

\* Line 94: current_chunk = [line]
NewChunk(line) == <<line>>

\* The index counted over all chunks, whatever their URL.
NextChunkIndexOfAll(cs, url) == Len(cs)

\* Lines 92 and 108: len([c for c in chunks if c["url"] == url])
NextChunkIndex(cs, url) == Cardinality({i \in 1..Len(cs) : cs[i].url = url})

\* Lines 86-93 and 102-109: the buffer becomes a chunk unless its text is empty.
\* page_no is not a key of the chunk: it records the page the chunk was cut from.
Emit(cs, buffer, p, n) ==
    IF ChunkText(buffer) = <<>>
    THEN cs
    ELSE Append(cs, [url         |-> p.url,
                     content     |-> ChunkText(buffer),
                     title       |-> p.title,
                     chunk_index |-> NextChunkIndex(cs, p.url),
                     page_no     |-> n])

\* Lines 84-85: the test that closes the current chunk before a line.
ShouldFlush(line_tokens) ==
    current_tokens + line_tokens > max_tokens /\ current_tokens >= min_tokens

\* The other components at rest.
ChunkOnly == UNCHANGED <<crawlVars, linksVars, dedupVars, pipeVars, inferVars, p2Vars>>

\* Lines 22-37 and 65: the agent is built and chunk is called.
ChunkInit ==
    /\ \E b \in TokenBudgets : min_tokens = b[1] /\ max_tokens = b[2]
    /\ chunks = <<>>
    /\ page = [url |-> "", title |-> "", content |-> <<>>]
    /\ lines = <<>>
    /\ current_chunk = <<>>
    /\ current_tokens = 0
    /\ page_no = 0
    /\ lines_read = 0
    /\ chunk_pc = "page"

\* Lines 67-73: a page whose content is blank is passed over.
PageSkipped ==
    /\ chunk_pc = "page"
    /\ lines_read < MaxTotalLines
    /\ \E url \in PageUrls, content \in Contents(MaxTotalLines - lines_read) :
        /\ IsBlank(content)
        /\ page' = [url |-> url, title |-> url, content |-> content]
        /\ lines_read' = lines_read + Len(content)
    /\ page_no' = page_no + 1
    /\ UNCHANGED <<min_tokens, max_tokens, chunks, lines, current_chunk, current_tokens, chunk_pc>>
    /\ ChunkOnly

\* Lines 67-78: a page with content is split into lines.
PageBegin ==
    /\ chunk_pc = "page"
    /\ lines_read < MaxTotalLines
    /\ \E url \in PageUrls, content \in Contents(MaxTotalLines - lines_read) :
        /\ ~IsBlank(content)
        /\ page' = [url |-> url, title |-> url, content |-> content]
        /\ lines' = content
        /\ lines_read' = lines_read + Len(content)
    /\ page_no' = page_no + 1
    /\ current_chunk' = <<>>
    /\ current_tokens' = 0
    /\ chunk_pc' = "line"
    /\ UNCHANGED <<min_tokens, max_tokens, chunks>>
    /\ ChunkOnly

\* Lines 80-95: the line does not fit: the buffer is closed and the line
\* starts the next one.
LineFlush ==
    /\ chunk_pc = "line"
    /\ lines # <<>>
    /\ ShouldFlush(Head(lines).tokens)
    /\ chunks' = Emit(chunks, current_chunk, page, page_no)
    /\ current_chunk' = NewChunk(Head(lines))
    /\ current_tokens' = Head(lines).tokens
    /\ lines' = Tail(lines)
    /\ UNCHANGED <<min_tokens, max_tokens, page, page_no, lines_read, chunk_pc>>
    /\ ChunkOnly

\* Lines 80-82, 96-98: the line joins the buffer.
LineAppend ==
    /\ chunk_pc = "line"
    /\ lines # <<>>
    /\ ~ShouldFlush(Head(lines).tokens)
    /\ current_chunk' = Append(current_chunk, Head(lines))
    /\ current_tokens' = current_tokens + Head(lines).tokens
    /\ lines' = Tail(lines)
    /\ UNCHANGED <<min_tokens, max_tokens, chunks, page, page_no, lines_read, chunk_pc>>
    /\ ChunkOnly

\* Lines 100-109: the lines are exhausted; what remains becomes a chunk.
PageEnd ==
    /\ chunk_pc = "line"
    /\ lines = <<>>
    /\ chunks' = IF current_chunk # <<>>
                 THEN Emit(chunks, current_chunk, page, page_no)
                 ELSE chunks
    /\ chunk_pc' = "page"
    /\ UNCHANGED <<min_tokens, max_tokens, page, lines, current_chunk, current_tokens,
                   page_no, lines_read>>
    /\ ChunkOnly

\* Line 111: the pages are exhausted.
ChunkReturn ==
    /\ chunk_pc = "page"
    /\ chunk_pc' = "done"
    /\ UNCHANGED <<min_tokens, max_tokens, chunks, page, lines, current_chunk, current_tokens,
                   page_no, lines_read>>
    /\ ChunkOnly

ChunkNext ==
    \/ PageSkipped
    \/ PageBegin
    \/ LineFlush
    \/ LineAppend
    \/ PageEnd
    \/ ChunkReturn

SpecChunkInit ==
    ChunkInit /\ CrawlIdle /\ LinksIdle /\ DedupIdle /\ PipeIdle /\ InferIdle /\ P2Idle

SpecChunk == SpecChunkInit /\ [][ChunkNext]_vars

-----------------------------------------------------------------------------
(* Claims about the chunker, checked under SpecChunk.                      *)

\* The chunk is the last one cut from its page so far.
LastOfPage(i) == \A j \in (i + 1)..Len(chunks) : chunks[j].page_no # chunks[i].page_no

\* C5: every chunk's token count (the sum of the token counts of its lines)
\* is within [min_tokens, max_tokens], unless the chunk is one single line
\* above max_tokens or the last chunk of its page.
C5_ChunkTokensInRange ==
    \A i \in 1..Len(chunks) :
        \/ /\ min_tokens <= TokenCount(chunks[i].content)
           /\ TokenCount(chunks[i].content) <= max_tokens
        \/ /\ Len(chunks[i].content) = 1
           /\ TokenCount(chunks[i].content) > max_tokens
        \/ LastOfPage(i)

\* C6: the chunks of one URL carry the indices 0, 1, ..., k-1 in the order
\* they were emitted, also when several pages share the URL.
C6_ChunkIndexDense ==
    \A i \in 1..Len(chunks) :
        chunks[i].chunk_index
            = Cardinality({j \in 1..(i - 1) : chunks[j].url = chunks[i].url})

\* Two pages of one URL, a page of another URL between them, all chunked.
C6_Witness ==
    /\ chunk_pc = "done"
    /\ \E i, j, k \in 1..Len(chunks) :
        /\ i < j /\ j < k
        /\ chunks[i].url = chunks[k].url
        /\ chunks[j].url # chunks[i].url
        /\ chunks[i].page_no # chunks[k].page_no
        /\ chunks[k].chunk_index = 1

-----------------------------------------------------------------------------
(* similarity_utils.  A text is the sequence of its words; Submodules is a  *)
(* sequence of <<name, description>> entries with distinct names.  A        *)
(* similarity is the exact fraction <<numerator, denominator>>: for the     *)
(* word sets of this model and the thresholds 0.5 and 0.7 the comparison of *)
(* the floating-point values agrees with the comparison of the fractions.   *)

Words == {"Billing", "billing", "Management", "Handles", "invoices", "and", "payments"}

\* len(word)
WordLen(w) ==
    CASE w = "Billing"    -> 7
      [] w = "billing"    -> 7
      [] w = "Management" -> 10
      [] w = "Handles"    -> 7
      [] w = "invoices"   -> 8
      [] w = "and"        -> 3
      [] w = "payments"   -> 8

\* word.lower()
Lower(w) ==
    CASE w = "Billing"    -> "billing"
      [] w = "billing"    -> "billing"
      [] w = "Management" -> "management"
      [] w = "Handles"    -> "handles"
      [] w = "invoices"   -> "invoices"
      [] w = "and"        -> "and"
      [] w = "payments"   -> "payments"

\* len(text): the letters of the words and one space between two words.
RECURSIVE Letters(_)
Letters(text) == IF text = <<>> THEN 0 ELSE WordLen(Head(text)) + Letters(Tail(text))

TextLen(text) == IF text = <<>> THEN 0 ELSE Letters(text) + Len(text) - 1

\* Lines 23-25: set(re.findall(r'\b\w+\b', text.lower()))
normalize(text) == {Lower(text[i]) : i \in 1..Len(text)}

Min(a, b) == IF a <= b THEN a ELSE b

\* The overlap taken over the first text's words alone.
simple_similarity_first(text1, text2) ==
    LET words1 == normalize(text1)
        words2 == normalize(text2)
        intersection == Cardinality(words1 \cap words2)
        union == Cardinality(words1 \cup words2)
    IN  IF words1 = {} \/ words2 = {}
        THEN <<0, 1>>
        ELSE <<6 * intersection * Cardinality(words1) + 4 * intersection * union,
               10 * union * Cardinality(words1)>>

\* Lines 9-46: 0.6 * intersection / union + 0.4 * intersection / min(len, len).
simple_similarity(text1, text2) ==
    LET words1 == normalize(text1)
        words2 == normalize(text2)
        intersection == Cardinality(words1 \cap words2)
        union == Cardinality(words1 \cup words2)
        least == Min(Cardinality(words1), Cardinality(words2))
    IN  IF words1 = {} \/ words2 = {}
        THEN <<0, 1>>
        ELSE <<6 * intersection * least + 4 * intersection * union, 10 * union * least>>

\* Lines 49-76: name_sim * 0.6 + desc_sim * 0.4 >= threshold.
are_similar(module1, module2, threshold) ==
    LET name_sim == simple_similarity(module1.module, module2.module)
        desc_sim == simple_similarity(module1.Description, module2.Description)
    IN  (6 * name_sim[1] * desc_sim[2] + 4 * desc_sim[1] * name_sim[2]) * threshold[2]
            >= threshold[1] * 10 * name_sim[2] * desc_sim[2]

\* Line 105: {**submodules1, **submodules2}: the first dict's keys keep their
\* place and take the second dict's value; the second's new keys follow.
RECURSIVE Lookup(_, _)
Lookup(subs, key) ==
    IF subs = <<>> THEN <<>>
    ELSE IF Head(subs)[1] = key THEN Head(subs)[2] ELSE Lookup(Tail(subs), key)

Keys(subs) == {subs[i][1] : i \in 1..Len(subs)}

RECURSIVE Overwritten(_, _)
Overwritten(subs1, subs2) ==
    IF subs1 = <<>> THEN <<>>
    ELSE <<IF Head(subs1)[1] \in Keys(subs2)
           THEN <<Head(subs1)[1], Lookup(subs2, Head(subs1)[1])>>
           ELSE Head(subs1)>>
         \o Overwritten(Tail(subs1), subs2)

RECURSIVE NewEntries(_, _)
NewEntries(subs1, subs2) ==
    IF subs2 = <<>> THEN <<>>
    ELSE (IF Head(subs2)[1] \in Keys(subs1) THEN <<>> ELSE <<Head(subs2)>>)
         \o NewEntries(subs1, Tail(subs2))

MergeSubmodules(subs1, subs2) == Overwritten(subs1, subs2) \o NewEntries(subs1, subs2)

\* Lines 79-111.  f"{desc1} {desc2}".strip() is the words of both.
merge_modules(module1, module2) ==
    LET name1 == module1.module
        name2 == module2.module
        desc1 == module1.Description
        desc2 == module2.Description
    IN  Module(IF TextLen(name1) >= TextLen(name2) THEN name1 ELSE name2,
               IF TextLen(desc1) > TextLen(desc2) THEN desc1 ELSE desc1 \o desc2,
               MergeSubmodules(module1.Submodules, module2.Submodules))

-----------------------------------------------------------------------------
(* DedupAgent._similarity_deduplicate, called on a list of modules and     *)
(* then on its own result.                                                 *)

MaxModules == 3

Billing == Module(<<"Billing">>, <<"Handles", "invoices">>, <<>>)

BillingManagement ==
    Module(<<"Billing", "Management">>, <<"Handles", "invoices", "and", "payments">>,
           << <<"Refunds", <<"payments">>>> >>)

DedupModules ==
    { Billing,
      BillingManagement,
      Module(<<"Billing">>, <<"Handles">>, <<>>),
      Module(<<"Billing">>, <<"invoices">>, << <<"Refunds", <<"invoices">>>> >>),
      Module(<<"billing", "Management">>, <<"Handles", "invoices">>, <<>>),
      Module(<<"payments">>, <<"and", "payments">>, << <<"Cards", <<"payments">>>> >>) }

Thresholds == {<<1, 2>>, <<7, 10>>}

ModuleLists == UNION {[1..n -> DedupModules] : n \in 0..MaxModules}

\* The other components at rest.
DedupOnly == UNCHANGED <<crawlVars, linksVars, chunkVars, pipeVars, inferVars, p2Vars>>

\* Lines 25-34: the agent is built; _similarity_deduplicate is about to run.
DedupInit ==
    /\ similarity_threshold \in Thresholds
    /\ modules \in ModuleLists
    /\ merged = <<>>
    /\ used_indices = {}
    /\ dd_i = 0
    /\ dd_j = 0
    /\ current_module = Module(<<>>, <<>>, <<>>)
    /\ run = 1
    /\ dedup_pc = "start"

\* Lines 67-68: a list of at most one module is returned as it is.
DedupTrivial ==
    /\ dedup_pc = "start"
    /\ Len(modules) <= 1
    /\ merged' = modules
    /\ dedup_pc' = "done"
    /\ UNCHANGED <<similarity_threshold, modules, used_indices, dd_i, dd_j, current_module, run>>
    /\ DedupOnly

\* Lines 70-73: the loops begin.
DedupBegin ==
    /\ dedup_pc = "start"
    /\ Len(modules) > 1
    /\ merged' = <<>>
    /\ used_indices' = {}
    /\ dd_i' = 1
    /\ dedup_pc' = "outer"
    /\ UNCHANGED <<similarity_threshold, modules, dd_j, current_module, run>>
    /\ DedupOnly

\* Lines 73-75: a module already absorbed is passed over.
OuterSkip ==
    /\ dedup_pc = "outer"
    /\ dd_i <= Len(modules)
    /\ dd_i \in used_indices
    /\ dd_i' = dd_i + 1
    /\ UNCHANGED <<similarity_threshold, modules, merged, used_indices, dd_j, current_module,
                   run, dedup_pc>>
    /\ DedupOnly

\* Lines 73-80: the next module starts a cluster.
OuterTake ==
    /\ dedup_pc = "outer"
    /\ dd_i <= Len(modules)
    /\ dd_i \notin used_indices
    /\ current_module' = modules[dd_i]
    /\ dd_j' = dd_i + 1
    /\ dedup_pc' = "inner"
    /\ UNCHANGED <<similarity_threshold, modules, merged, used_indices, dd_i, run>>
    /\ DedupOnly

\* Lines 80-82: a later module already absorbed is passed over.
InnerSkip ==
    /\ dedup_pc = "inner"
    /\ dd_j <= Len(modules)
    /\ dd_j \in used_indices
    /\ dd_j' = dd_j + 1
    /\ UNCHANGED <<similarity_threshold, modules, merged, used_indices, dd_i, current_module,
                   run, dedup_pc>>
    /\ DedupOnly

\* Lines 84-86: a similar later module is merged into the cluster.
InnerMerge ==
    /\ dedup_pc = "inner"
    /\ dd_j <= Len(modules)
    /\ dd_j \notin used_indices
    /\ are_similar(current_module, modules[dd_j], similarity_threshold)
    /\ current_module' = merge_modules(current_module, modules[dd_j])
    /\ used_indices' = used_indices \cup {dd_j}
    /\ dd_j' = dd_j + 1
    /\ UNCHANGED <<similarity_threshold, modules, merged, dd_i, run, dedup_pc>>
    /\ DedupOnly

\* Line 84: a later module that is not similar stays.
InnerKeep ==
    /\ dedup_pc = "inner"
    /\ dd_j <= Len(modules)
    /\ dd_j \notin used_indices
    /\ ~are_similar(current_module, modules[dd_j], similarity_threshold)
    /\ dd_j' = dd_j + 1
    /\ UNCHANGED <<similarity_threshold, modules, merged, used_indices, dd_i, current_module,
                   run, dedup_pc>>
    /\ DedupOnly

\* Lines 88-89: the cluster is appended to merged.
InnerDone ==
    /\ dedup_pc = "inner"
    /\ dd_j > Len(modules)
    /\ merged' = Append(merged, current_module)
    /\ used_indices' = used_indices \cup {dd_i}
    /\ dd_i' = dd_i + 1
    /\ dedup_pc' = "outer"
    /\ UNCHANGED <<similarity_threshold, modules, dd_j, current_module, run>>
    /\ DedupOnly

\* Line 91: return merged.
DedupReturn ==
    /\ dedup_pc = "outer"
    /\ dd_i > Len(modules)
    /\ dedup_pc' = "done"
    /\ UNCHANGED <<similarity_threshold, modules, merged, used_indices, dd_i, dd_j,
                   current_module, run>>
    /\ DedupOnly

\* _similarity_deduplicate is called once more, on its own result.
DedupAgain ==
    /\ dedup_pc = "done"
    /\ run = 1
    /\ modules' = merged
    /\ run' = 2
    /\ dedup_pc' = "start"
    /\ UNCHANGED <<similarity_threshold, merged, used_indices, dd_i, dd_j, current_module>>
    /\ DedupOnly

DedupNext ==
    \/ DedupTrivial
    \/ DedupBegin
    \/ OuterSkip
    \/ OuterTake
    \/ InnerSkip
    \/ InnerMerge
    \/ InnerKeep
    \/ InnerDone
    \/ DedupReturn
    \/ DedupAgain

SpecDedupInit ==
    DedupInit /\ CrawlIdle /\ LinksIdle /\ ChunkIdle /\ PipeIdle /\ InferIdle /\ P2Idle

SpecDedup == SpecDedupInit /\ [][DedupNext]_vars

-----------------------------------------------------------------------------
(* Claims about the lexical deduplicator, checked under SpecDedup.         *)


\* C3: when two modules are merged and one Description is strictly longer,
\* the merged Description is the longer one alone, whichever operand it
\* belongs to (otherwise both, space-joined); Billing / "Handles invoices"
\* and Billing Management / "Handles invoices and payments" at threshold 0.7
\* give one module Billing Management / "Handles invoices and payments".
C3_MergeKeepsLongerDescription ==
    LET LongerDescription(desc1, desc2) ==
            IF TextLen(desc1) > TextLen(desc2) THEN desc1
            ELSE IF TextLen(desc2) > TextLen(desc1) THEN desc2
            ELSE desc1 \o desc2
    IN  (dedup_pc = "done" /\ run = 1 /\ Len(modules) = 2) =>
            /\ Len(merged) = 1 =>
                  merged[1].Description
                      = LongerDescription(modules[1].Description, modules[2].Description)
            /\ (modules = <<Billing, BillingManagement>> /\ similarity_threshold = <<7, 10>>) =>
                  /\ Len(merged) = 1
                  /\ merged[1].module = <<"Billing", "Management">>
                  /\ merged[1].Description = <<"Handles", "invoices", "and", "payments">>

\* C4: no two modules of a phase-1 result are similar at the threshold, and
\* phase 1 run on its own result returns that result.
C4_Phase1Idempotent ==
    /\ dedup_pc = "done" =>
          \A a, b \in 1..Len(merged) :
              a < b => ~are_similar(merged[a], merged[b], similarity_threshold)
    /\ (dedup_pc = "done" /\ run = 2) => merged = modules

\* The names and descriptions the deduplicator holds.
TextsOf(ms) == {ms[i].module : i \in 1..Len(ms)} \cup {ms[i].Description : i \in 1..Len(ms)}

TextsInPlay == TextsOf(modules) \cup TextsOf(merged) \cup TextsOf(<<current_module>>)

ModulesInPlay == Range(modules) \cup Range(merged) \cup {current_module}

SameFraction(p, q) == p[1] * q[2] = q[1] * p[2]

\* C7: are_similar(A, B, t) = are_similar(B, A, t) for all modules A, B and
\* every threshold, and simple_similarity(a, b) = simple_similarity(b, a) for
\* all texts.
C7_SimilaritySymmetric ==
    /\ \A a, b \in ModulesInPlay : \A th \in Thresholds :
          are_similar(a, b, th) <=> are_similar(b, a, th)
    /\ \A x, y \in TextsInPlay :
          SameFraction(simple_similarity(x, y), simple_similarity(y, x))

\* Two modules whose names differ in their number of words were compared and
\* merged.
C7_Witness ==
    /\ dedup_pc = "done"
    /\ run = 1
    /\ Len(modules) = 2
    /\ Len(merged) = 1
    /\ Cardinality(normalize(modules[1].module)) # Cardinality(normalize(modules[2].module))
    /\ Cardinality(normalize(modules[1].Description))
         # Cardinality(normalize(modules[2].Description))

-----------------------------------------------------------------------------
(* extract_modules (app.py, lines 27-101): the pipeline.  Each stage is    *)
(* seen from outside: how many items it returns and how many HTTP requests *)
(* it issues.  The sizes a stage can return are those its code allows for  *)
(* the size it is given.                                                   *)

\* The most pages a crawl returns and the most modules a stage returns.
MaxOut == 2

\* The most URLs handed to extract_modules.
MaxUrls == 2

\* The most GETs of one crawl that end in an error.
MaxFailedGets == 1

\* The stages in the order extract_modules names them.
StageOrder == <<"crawl", "clean", "chunk", "infer", "deduplicate">>

Call(stage, out) == [stage |-> stage, out |-> out]

\* module_agent.py, line 107: the fallback looks at chunks[:3].
FallbackChunks == 3

\* dedup_agent.py, lines 107-109: the LLM deduplication takes ten modules at a time.
batch_size == 10

\* llm_client.py, line 33 (`if not self.api_key`) seeing every credential as present
\* unless it is the empty string.
CredentialMissingOnlyEmpty(key) == key = "empty"

\* llm_client.py, line 33: `not self.api_key` holds of None and of "".
CredentialMissing(key) == key \in {"unset", "empty"}

\* The emptiness tests of lines 58, 67, 76 and 85 never holding.
NotAnyNever(n) == FALSE

\* app.py, lines 58, 67, 76, 85: `if not pages`, and so on.
NotAny(n) == n = 0

\* The size of the last stage's output.
LastOut == calls[Len(calls)].out

\* Lines 58-60 and their like: after a stage of output n, warn and return [],
\* or go on to the stage `next`.
AfterStage(stage, n, next, warning) ==
    /\ calls' = Append(calls, Call(stage, n))
    /\ IF NotAny(n)
       THEN /\ st_messages' = st_messages \o <<"info", warning>>
            /\ result' = 0
            /\ pipe_pc' = "done"
       ELSE /\ st_messages' = Append(st_messages, "info")
            /\ result' = result
            /\ pipe_pc' = next

PipeOnly == UNCHANGED <<crawlVars, linksVars, chunkVars, dedupVars, inferVars, p2Vars>>

\* extract_modules is called with some URLs, in some environment.
PipeInit ==
    /\ GROQ_API_KEY \in {"unset", "empty", "set"}
    /\ n_urls \in 0..MaxUrls
    /\ llm_client = "none"
    /\ calls = <<>>
    /\ http_requests = 0
    /\ st_messages = <<>>
    /\ result = 0
    /\ pipe_pc = "init"

\* Lines 43-48 with llm_client.py lines 32-37: the client's constructor raises,
\* two errors are shown and [] is returned.
ClientFailed ==
    /\ pipe_pc = "init"
    /\ CredentialMissing(GROQ_API_KEY)
    /\ llm_client' = "failed"
    /\ st_messages' = st_messages \o <<"error: Failed to initialize LLM client",
                                       "error: Please ensure GROQ_API_KEY"  >>
    /\ result' = 0
    /\ pipe_pc' = "done"
    /\ UNCHANGED <<GROQ_API_KEY, n_urls, calls, http_requests>>
    /\ PipeOnly

\* Lines 43-51 with llm_client.py lines 32-51: the client is built; building it
\* sends nothing.
ClientReady ==
    /\ pipe_pc = "init"
    /\ ~CredentialMissing(GROQ_API_KEY)
    /\ llm_client' = "ready"
    /\ pipe_pc' = "crawl"
    /\ UNCHANGED <<GROQ_API_KEY, n_urls, calls, http_requests, st_messages, result>>
    /\ PipeOnly

\* Lines 54-60: crawl.  Every page returned took one GET; a GET may fail; with
\* no URL nothing is fetched.
CrawlStage ==
    /\ pipe_pc = "crawl"
    /\ \E n \in 0..MaxOut, failed \in 0..MaxFailedGets :
          /\ n_urls = 0 => n = 0 /\ failed = 0
          /\ n_urls > 0 => n + failed >= 1
          /\ http_requests' = http_requests + n + failed
          /\ AfterStage("crawl", n, "clean", "warning: No pages were successfully crawled.")
    /\ UNCHANGED <<GROQ_API_KEY, n_urls, llm_client>>
    /\ PipeOnly

\* Line 55: crawler.crawl raises (a page holds an href urljoin rejects) after
\* some GETs; line 55 stands in no try, so extract_modules ends with the
\* exception and returns nothing.
CrawlStageRaised ==
    /\ pipe_pc = "crawl"
    /\ n_urls > 0
    /\ \E fetched \in 1..MaxOut : http_requests' = http_requests + fetched
    /\ calls' = Append(calls, Call("crawl", 0))
    /\ pipe_pc' = "raised"
    /\ UNCHANGED <<GROQ_API_KEY, n_urls, llm_client, st_messages, result>>
    /\ PipeOnly

\* Lines 63-69: clean keeps the pages that have content (cleaner_agent.py, lines 48-66).
CleanStage ==
    /\ pipe_pc = "clean"
    /\ \E n \in 0..LastOut :
          AfterStage("clean", n, "chunk", "warning: No content extracted after cleaning.")
    /\ UNCHANGED <<GROQ_API_KEY, n_urls, llm_client, http_requests>>
    /\ PipeOnly

\* Lines 72-78: chunk.  A cleaned page has content that is not blank, so it
\* gives one chunk at least (chunking_agent.py, lines 67-109).
ChunkStage ==
    /\ pipe_pc = "chunk"
    /\ \E n \in (IF LastOut = 0 THEN {0} ELSE LastOut..MaxOut) :
          AfterStage("chunk", n, "infer", "warning: No chunks created.")
    /\ UNCHANGED <<GROQ_API_KEY, n_urls, llm_client, http_requests>>
    /\ PipeOnly

\* Lines 81-94: infer_modules (module_agent.py, lines 50-169) asks the LLM once
\* for each chunk and, when that found nothing, for up to three chunks more.
InferStage ==
    /\ pipe_pc = "infer"
    /\ \E n \in 0..MaxOut, found \in BOOLEAN :
       \E fallback \in 0..Min(FallbackChunks, LastOut) :
          /\ found => n > 0 /\ fallback = 0
          /\ LastOut = 0 => n = 0
          /\ http_requests' = http_requests + LastOut + fallback
          /\ AfterStage("infer", n, "dedup", "warning: No modules inferred.")
    /\ UNCHANGED <<GROQ_API_KEY, n_urls, llm_client>>
    /\ PipeOnly

\* Lines 97-101: deduplicate (dedup_agent.py, lines 46-55, 103-117) and return.
\* The first pass leaves `kept` modules; when more than one is left the LLM is
\* asked once for each batch of ten.
DedupStage ==
    /\ pipe_pc = "dedup"
    /\ \E kept \in (IF LastOut = 0 THEN {0} ELSE 1..LastOut) :
       \E n \in (IF kept <= 1 THEN {kept} ELSE 1..MaxOut) :
          /\ http_requests' = http_requests
                                + (IF kept <= 1 THEN 0 ELSE (kept + batch_size - 1) \div batch_size)
          /\ calls' = Append(calls, Call("deduplicate", n))
          /\ result' = n
    /\ st_messages' = Append(st_messages, "info")
    /\ pipe_pc' = "done"
    /\ UNCHANGED <<GROQ_API_KEY, n_urls, llm_client>>
    /\ PipeOnly

PipeNext ==
    \/ ClientFailed
    \/ ClientReady
    \/ CrawlStage
    \/ CrawlStageRaised
    \/ CleanStage
    \/ ChunkStage
    \/ InferStage
    \/ DedupStage

SpecPipeInit ==
    PipeInit /\ CrawlIdle /\ LinksIdle /\ ChunkIdle /\ DedupIdle /\ InferIdle /\ P2Idle

SpecPipe == SpecPipeInit /\ [][PipeNext]_vars

-----------------------------------------------------------------------------
(* The claims about the pipeline.                                          *)

\* C11: extract_modules never raises: a failure while one page is processed
\* (its fetch or the extraction of its links) stays within the crawl stage,
\* which ends by returning its list, and so does extract_modules.
C11_NeverRaises ==
    /\ crawl_pc # "raised"
    /\ links_pc # "raised"
    /\ pipe_pc # "raised"

\* C9: extract_modules runs the stages in the order crawl, clean, chunk, infer,
\* deduplicate, each at most once; as soon as a stage produces nothing it
\* returns [] and no later stage is invoked -- an empty crawl returns [] with
\* crawl the only stage invoked.
C9_StagesInOrder ==
    /\ Len(calls) <= Len(StageOrder)
    /\ \A i \in 1..Len(calls) : calls[i].stage = StageOrder[i]
    /\ \A i \in 1..(Len(calls) - 1) : calls[i].out > 0
    /\ (pipe_pc = "done" /\ calls # <<>> /\ LastOut = 0) => result = 0
    /\ (pipe_pc = "done" /\ llm_client = "ready") =>
          /\ calls # <<>>
          /\ Len(calls) < Len(StageOrder) => LastOut = 0
          /\ Len(calls) = Len(StageOrder) => result = LastOut

\* The crawl returned no page and extract_modules has returned.
C9_Witness ==
    /\ pipe_pc = "done"
    /\ n_urls > 0
    /\ calls = <<Call("crawl", 0)>>
    /\ result = 0
    /\ http_requests > 0

-----------------------------------------------------------------------------
(* ModuleAgent.infer_modules (module_agent.py).  A chunk is its title, its *)
(* URL and how much content it has: blank, fewer than 50 characters, or    *)
(* more.  A text of a response may begin and end with white space, the     *)
(* token " ".  An answer of the model is whether generate_json raised and  *)
(* the entries lines 237-262 pick out of the response.                     *)

MaxChunks == 4

\* str.strip()
RECURSIVE Strip(_)
Strip(text) ==
    IF text = <<>> THEN <<>>
    ELSE IF Head(text) = " " THEN Strip(Tail(text))
    ELSE IF Last(text) = " " THEN Strip(Front(text))
    ELSE text

Chunk(title, url, content) == [title |-> title, url |-> url, content |-> content]

InferChunks ==
    { Chunk(<<"Billing">>, Url("http", <<"a", "/", "b">>), "long"),
      Chunk(<<>>, Url("http", <<"a">>), "long"),
      Chunk(<<"Documentation">>, Url("http", <<"a", "/", "b">>), "short"),
      Chunk(<<>>, Url("http", <<"a", "/", "b", "?", "b">>), "long"),
      Chunk(<<>>, Url("http", <<"a", "/">>), "blank") }

ChunkLists == UNION {[1..n -> InferChunks] : n \in 0..MaxChunks}

\* An entry of the response: a dict (with its "module", a string or not, and
\* its "Description"), or something else.
Entry(kind, name, description) == [kind |-> kind, module |-> name, Description |-> description]

Answer(raises, entries) == [raises |-> raises, entries |-> entries]

Answers ==
    { Answer(TRUE, <<>>),
      Answer(FALSE, <<>>),
      Answer(FALSE, <<Entry("dict", <<" ", "Billing", " ">>, <<"Handles", "invoices">>)>>),
      Answer(FALSE, <<Entry("dict", <<"Billing", "Management">>, <<" ">>),
                      Entry("other", <<>>, <<>>)>>),
      Answer(FALSE, <<Entry("dict", <<" ">>, <<"Handles">>), Entry("dict", <<>>, <<>>)>>),
      Answer(FALSE, <<Entry("dict", <<"Billing">>, <<>>), Entry("not_str", <<>>, <<>>)>>) }

\* Line 270 letting every dict through.
HasNameAlways(module_name) == TRUE

\* Line 270: `if module_name`.
HasName(module_name) == module_name # <<>>

\* Lines 271-275: the canonical shape of one entry.
Formatted(entry) ==
    Module(Strip(entry.module),
           IF Strip(entry.Description) # <<>>
           THEN Strip(entry.Description)
           ELSE <<"Documentation", "for">> \o Strip(entry.module),
           <<>>)

\* Lines 264-277: the dicts that have a name, formatted, in order.
RECURSIVE formatted_modules(_)
formatted_modules(entries) ==
    IF entries = <<>> THEN <<>>
    ELSE (IF Head(entries).kind = "dict" /\ HasName(Strip(Head(entries).module))
          THEN <<Formatted(Head(entries))>> ELSE <<>>)
         \o formatted_modules(Tail(entries))

\* Line 268: .strip() of a "module" that is not a string raises AttributeError.
ExtractionRaises(entries) == \E i \in 1..Len(entries) : entries[i].kind = "not_str"

\* The call of lines 81-91, or of lines 136-141, ends in an exception.
CallFails(answer) == answer.raises \/ ExtractionRaises(answer.entries)

\* Line 90: the modules whose name is not blank.
RECURSIVE Named(_)
Named(ms) ==
    IF ms = <<>> THEN <<>>
    ELSE (IF Strip(Head(ms).module) # <<>> THEN <<Head(ms)>> ELSE <<>>) \o Named(Tail(ms))

\* Line 109: the chunk is worth a retry.
Eligible(chunk) == chunk.content = "long"

\* Line 107: chunks[:3].
FallbackLimit == Min(FallbackChunks, Len(inf_chunks))

\* Line 161 taking the URL before the title.
module_name_url_first(chunk) ==
    IF Last(Split(chunk.url.s)) # <<>> THEN Last(Split(chunk.url.s))
    ELSE IF chunk.title # <<>> THEN chunk.title
    ELSE <<"Documentation">>

\* Line 161: title or url.split('/')[-1] or "Documentation".
module_name(chunk) ==
    IF chunk.title # <<>> THEN chunk.title
    ELSE IF Last(Split(chunk.url.s)) # <<>> THEN Last(Split(chunk.url.s))
    ELSE <<"Documentation">>

\* Lines 163-167: the module made from the first chunk.
Synthesized(chunk) ==
    Module(module_name(chunk), <<"Documentation", "section:", "...">>, <<>>)

InferOnly == UNCHANGED <<crawlVars, linksVars, chunkVars, dedupVars, pipeVars, p2Vars>>

\* Line 50: infer_modules is called.
InferInit ==
    /\ inf_chunks \in ChunkLists
    /\ all_modules = <<>>
    /\ inf_i = 1
    /\ llm_log = <<>>
    /\ inf_pc = "main"

\* Lines 54-69: a chunk without content is passed over.
MainSkip ==
    /\ inf_pc = "main"
    /\ inf_i <= Len(inf_chunks)
    /\ inf_chunks[inf_i].content = "blank"
    /\ inf_i' = inf_i + 1
    /\ UNCHANGED <<inf_chunks, all_modules, llm_log, inf_pc>>
    /\ InferOnly

\* Lines 77-91: the model answers and its modules are added.
MainCall ==
    /\ inf_pc = "main"
    /\ inf_i <= Len(inf_chunks)
    /\ inf_chunks[inf_i].content # "blank"
    /\ \E answer \in Answers :
          /\ ~CallFails(answer)
          /\ all_modules' = all_modules \o Named(formatted_modules(answer.entries))
    /\ llm_log' = Append(llm_log, [pass |-> "main", chunk |-> inf_i])
    /\ inf_i' = inf_i + 1
    /\ UNCHANGED <<inf_chunks, inf_pc>>
    /\ InferOnly

\* Lines 77-101: the call or the reading of its answer raises; the chunk is
\* given up.
MainCallFailed ==
    /\ inf_pc = "main"
    /\ inf_i <= Len(inf_chunks)
    /\ inf_chunks[inf_i].content # "blank"
    /\ \E answer \in Answers : CallFails(answer)
    /\ llm_log' = Append(llm_log, [pass |-> "main", chunk |-> inf_i])
    /\ inf_i' = inf_i + 1
    /\ UNCHANGED <<inf_chunks, all_modules, inf_pc>>
    /\ InferOnly

\* Line 104: the main pass is over; the fallback runs when it found nothing.
MainDone ==
    /\ inf_pc = "main"
    /\ inf_i > Len(inf_chunks)
    /\ inf_i' = 1
    /\ inf_pc' = IF all_modules = <<>> /\ inf_chunks # <<>> THEN "fallback" ELSE "final"
    /\ UNCHANGED <<inf_chunks, all_modules, llm_log>>
    /\ InferOnly

\* Lines 107-110: a chunk with too little content is not retried.
FallbackSkip ==
    /\ inf_pc = "fallback"
    /\ inf_i <= FallbackLimit
    /\ ~Eligible(inf_chunks[inf_i])
    /\ inf_i' = inf_i + 1
    /\ UNCHANGED <<inf_chunks, all_modules, llm_log, inf_pc>>
    /\ InferOnly

\* Lines 136-144: the retry answers; with modules the loop is left, without
\* it goes on.
FallbackCall ==
    /\ inf_pc = "fallback"
    /\ inf_i <= FallbackLimit
    /\ Eligible(inf_chunks[inf_i])
    /\ \E answer \in Answers :
          /\ ~CallFails(answer)
          /\ all_modules' = all_modules \o formatted_modules(answer.entries)
          /\ inf_pc' = IF formatted_modules(answer.entries) # <<>> THEN "final" ELSE "fallback"
    /\ llm_log' = Append(llm_log, [pass |-> "fallback", chunk |-> inf_i])
    /\ inf_i' = inf_i + 1
    /\ UNCHANGED inf_chunks
    /\ InferOnly

\* Lines 105, 136-150: the retry raises; the try stands around the whole loop,
\* so the loop is left.
FallbackCallFailed ==
    /\ inf_pc = "fallback"
    /\ inf_i <= FallbackLimit
    /\ Eligible(inf_chunks[inf_i])
    /\ \E answer \in Answers : CallFails(answer)
    /\ llm_log' = Append(llm_log, [pass |-> "fallback", chunk |-> inf_i])
    /\ inf_i' = inf_i + 1
    /\ inf_pc' = "final"
    /\ UNCHANGED <<inf_chunks, all_modules>>
    /\ InferOnly

\* Line 107: the chunks to retry are used up.
FallbackExhausted ==
    /\ inf_pc = "fallback"
    /\ inf_i > FallbackLimit
    /\ inf_pc' = "final"
    /\ UNCHANGED <<inf_chunks, all_modules, inf_i, llm_log>>
    /\ InferOnly

\* Lines 152-169: with nothing found a module is made from the first chunk,
\* unless its name is "Documentation"; all_modules is returned.
FinalSafety ==
    /\ inf_pc = "final"
    /\ all_modules' =
          IF all_modules = <<>> /\ inf_chunks # <<>>
             /\ module_name(inf_chunks[1]) # <<>>
             /\ module_name(inf_chunks[1]) # <<"Documentation">>
          THEN <<Synthesized(inf_chunks[1])>>
          ELSE all_modules
    /\ inf_pc' = "done"
    /\ UNCHANGED <<inf_chunks, inf_i, llm_log>>
    /\ InferOnly

InferNext ==
    \/ MainSkip
    \/ MainCall
    \/ MainCallFailed
    \/ MainDone
    \/ FallbackSkip
    \/ FallbackCall
    \/ FallbackCallFailed
    \/ FallbackExhausted
    \/ FinalSafety

SpecInferInit ==
    InferInit /\ CrawlIdle /\ LinksIdle /\ ChunkIdle /\ DedupIdle /\ PipeIdle /\ P2Idle

SpecInfer == SpecInferInit /\ [][InferNext]_vars

-----------------------------------------------------------------------------
(* DedupAgent.deduplicate: _similarity_deduplicate, then _llm_deduplicate  *)
(* on its result (dedup_agent.py, lines 36-55 and 93-196).  An answer of   *)
(* the model is whether generate_json raised, whether reading the answer   *)
(* raises (an index that is not a number), its "duplicates" (a list of     *)
(* lists of indices from 1) and its "keep" (a set of indices).             *)

DedupAnswer(raises, malformed, duplicates, keep) ==
    [raises |-> raises, malformed |-> malformed, duplicates |-> duplicates, keep |-> keep]

DedupAnswers ==
    { DedupAnswer(TRUE,  FALSE, <<>>, {}),
      DedupAnswer(FALSE, TRUE,  <<>>, {}),
      DedupAnswer(FALSE, FALSE, <<>>, {}),
      DedupAnswer(FALSE, FALSE, << <<1>>, <<>> >>, {0, 99}),
      DedupAnswer(FALSE, FALSE, << <<1, 2>> >>, {3}),
      DedupAnswer(FALSE, FALSE, << <<1, 2>> >>, {}),
      DedupAnswer(FALSE, FALSE, <<>>, {1, 2}),
      DedupAnswer(FALSE, FALSE, << <<1, 2>>, <<2, 1>> >>, {1, 3}),
      DedupAnswer(FALSE, FALSE, << <<2, 99, 1>> >>, {2}),
      DedupAnswer(FALSE, FALSE, << <<1, 2>>, <<2, 1>>, <<1, 2>> >>, {}) }

\* Twelve modules no two of which are similar at 0.7: batches of ten and two.
TwelveModules ==
    [i \in 1..12 |->
        Module(<< <<"Billing", "Management", "Handles", "invoices">>[((i - 1) % 4) + 1] >>,
               << <<"and", "payments", "invoices">>[((i - 1) \div 4) + 1] >>,
               <<>>)]

\* Eleven of them: a batch of ten and a batch of one.
ElevenModules == SubSeq(TwelveModules, 1, 11)

DeduplicateInputs == ModuleLists \cup {ElevenModules, TwelveModules}

\* Line 172: the indices of a group that name a module of the batch.
RECURSIVE Usable(_, _)
Usable(dup_group, n) ==
    IF dup_group = <<>> THEN <<>>
    ELSE (IF 0 < Head(dup_group) /\ Head(dup_group) <= n THEN <<Head(dup_group)>> ELSE <<>>)
         \o Usable(Tail(dup_group), n)

\* Lines 176-178: the modules of a group merged from left to right.
RECURSIVE MergeGroup(_, _, _)
MergeGroup(acc, indices, ms) ==
    IF indices = <<>> THEN acc
    ELSE MergeGroup(merge_modules(acc, ms[Head(indices)]), Tail(indices), ms)

\* Lines 167-180: one merged module for every group of two usable indices or more.
RECURSIVE MergedGroups(_, _)
MergedGroups(duplicates, ms) ==
    IF duplicates = <<>> THEN <<>>
    ELSE (LET indices == Usable(Head(duplicates), Len(ms))
          IN  IF Len(indices) > 1
              THEN <<MergeGroup(ms[indices[1]], Tail(indices), ms)>>
              ELSE <<>>)
         \o MergedGroups(Tail(duplicates), ms)

\* Line 180: the indices the groups have used.
processed_indices(duplicates, n) ==
    UNION {Range(Usable(duplicates[g], n)) :
              g \in {h \in 1..Len(duplicates) : Len(Usable(duplicates[h], n)) > 1}}

\* Lines 183-186: the modules to keep, in the order the set is iterated.
RECURSIVE Kept(_, _, _)
Kept(order, processed, ms) ==
    IF order = <<>> THEN <<>>
    ELSE (IF 1 <= Head(order) /\ Head(order) <= Len(ms) /\ Head(order) \notin processed
          THEN <<ms[Head(order)]>> ELSE <<>>)
         \o Kept(Tail(order), processed, ms)

\* Lines 189-190 taking an answer without usable content for an empty result.
PassThroughNever(merged_modules, ms) == merged_modules

\* Lines 189-192: `if not merged_modules: return modules`.
PassThrough(merged_modules, ms) == IF merged_modules = <<>> THEN ms ELSE merged_modules

\* Lines 155-196: what _llm_deduplicate_batch returns for an answer.
_llm_deduplicate_batch(ms, answer, order) ==
    IF answer.raises \/ answer.malformed
    THEN ms
    ELSE PassThrough(MergedGroups(answer.duplicates, ms)
                        \o Kept(order, processed_indices(answer.duplicates, Len(ms)), ms),
                     ms)

\* The batch that begins at p2_i: modules[i:i + batch_size].
Batch == SubSeq(p2_modules, p2_i, Min(p2_i + batch_size - 1, Len(p2_modules)))

DeduplicateOnly == UNCHANGED <<crawlVars, linksVars, chunkVars, pipeVars, inferVars>>

Phase2Only == UNCHANGED dedupVars

\* Lines 25-34 and 36: the agent is built and deduplicate is called.
DeduplicateInit ==
    /\ similarity_threshold \in Thresholds
    /\ modules \in DeduplicateInputs
    /\ merged = <<>>
    /\ used_indices = {}
    /\ dd_i = 0
    /\ dd_j = 0
    /\ current_module = Module(<<>>, <<>>, <<>>)
    /\ run = 1
    /\ dedup_pc = "start"
    /\ p2_modules = <<>>
    /\ p2_result = <<>>
    /\ p2_i = 0
    /\ p2_log = <<>>
    /\ p2_pc = "idle"

\* Lines 46-47: nothing to deduplicate.
DeduplicateEmpty ==
    /\ dedup_pc = "start"
    /\ p2_pc = "idle"
    /\ modules = <<>>
    /\ dedup_pc' = "done"
    /\ p2_pc' = "done"
    /\ UNCHANGED <<similarity_threshold, modules, merged, used_indices, dd_i, dd_j,
                   current_module, run, p2_modules, p2_result, p2_i, p2_log>>
    /\ DeduplicateOnly

\* Lines 53, 103-104: a list of at most one module is returned as it is.
LlmDedupTrivial ==
    /\ dedup_pc = "done"
    /\ p2_pc = "idle"
    /\ Len(merged) <= 1
    /\ p2_modules' = merged
    /\ p2_result' = merged
    /\ p2_pc' = "done"
    /\ UNCHANGED <<p2_i, p2_log>>
    /\ Phase2Only
    /\ DeduplicateOnly

\* Lines 53, 106-117: the list is gone through in batches of ten.
LlmDedupBegin ==
    /\ dedup_pc = "done"
    /\ p2_pc = "idle"
    /\ Len(merged) > 1
    /\ p2_modules' = merged
    /\ p2_result' = <<>>
    /\ p2_i' = 1
    /\ p2_pc' = "batch"
    /\ UNCHANGED p2_log
    /\ Phase2Only
    /\ DeduplicateOnly

\* Lines 129-130: a batch of one module is returned without a call.
BatchTrivial ==
    /\ p2_pc = "batch"
    /\ p2_i <= Len(p2_modules)
    /\ Len(Batch) <= 1
    /\ p2_result' = p2_result \o Batch
    /\ p2_i' = p2_i + batch_size
    /\ UNCHANGED <<p2_modules, p2_log, p2_pc>>
    /\ Phase2Only
    /\ DeduplicateOnly

\* Lines 132-196: the model is asked about a batch and what
\* _llm_deduplicate_batch returns is added to the result.
BatchAsked ==
    /\ p2_pc = "batch"
    /\ p2_i <= Len(p2_modules)
    /\ Len(Batch) > 1
    /\ \E answer \in DedupAnswers : \E order \in Orderings(answer.keep) :
          /\ p2_result' = p2_result \o _llm_deduplicate_batch(Batch, answer, order)
          /\ p2_log' = Append(p2_log, [batch  |-> Batch,
                                       answer |-> answer,
                                       output |-> _llm_deduplicate_batch(Batch, answer, order)])
    /\ p2_i' = p2_i + batch_size
    /\ UNCHANGED <<p2_modules, p2_pc>>
    /\ Phase2Only
    /\ DeduplicateOnly

\* Lines 115, 117 and 55: the result is returned.
LlmDedupReturn ==
    /\ p2_pc = "batch"
    /\ p2_i > Len(p2_modules)
    /\ p2_pc' = "done"
    /\ UNCHANGED <<p2_modules, p2_result, p2_i, p2_log>>
    /\ Phase2Only
    /\ DeduplicateOnly

DeduplicateNext ==
    \/ DeduplicateEmpty
    \/ (modules # <<>> /\ DedupTrivial)
    \/ DedupBegin
    \/ OuterSkip
    \/ OuterTake
    \/ InnerSkip
    \/ InnerMerge
    \/ InnerKeep
    \/ InnerDone
    \/ DedupReturn
    \/ LlmDedupTrivial
    \/ LlmDedupBegin
    \/ BatchTrivial
    \/ BatchAsked
    \/ LlmDedupReturn

SpecDeduplicateInit ==
    DeduplicateInit /\ CrawlIdle /\ LinksIdle /\ ChunkIdle /\ PipeIdle /\ InferIdle

SpecDeduplicate == SpecDeduplicateInit /\ [][DeduplicateNext]_vars

-----------------------------------------------------------------------------
(* Claims about infer_modules, checked under SpecInfer.                    *)

\* The chunks of the retries so far, in the order of the calls.
RECURSIVE Retried(_)
Retried(log) ==
    IF log = <<>> THEN <<>>
    ELSE (IF Head(log).pass = "fallback" THEN <<Head(log).chunk>> ELSE <<>>)
         \o Retried(Tail(log))

\* C17: when the main pass found nothing, the fallback retries the chunks
\* among the first three that have 50 characters or more, in order, and stops
\* only at the first that yields a module or when they are used up -- a retry
\* that fails or yields nothing does not keep the next such chunk from being
\* tried; the fallback does not run when the main pass found a module.
C17_FallbackTriesEveryEligibleChunk ==
    LET upto     == IF Len(inf_chunks) < 3 THEN Len(inf_chunks) ELSE 3
        eligible == {i \in 1..upto : inf_chunks[i].content = "long"}
        retried  == Retried(llm_log)
    IN  /\ \A k \in 1..Len(retried) :
              /\ retried[k] \in eligible
              /\ \A i \in eligible : i < retried[k] => \E j \in 1..(k - 1) : retried[j] = i
        /\ inf_pc = "fallback" => all_modules = <<>>
        /\ (inf_pc = "final" /\ all_modules = <<>>) =>
              \A i \in eligible : \E k \in 1..Len(retried) : retried[k] = i

\* C18: when no call of the model yielded a module and there are chunks,
\* infer_modules returns exactly one module, named by the first chunk's title
\* or else the last segment of the path of its URL, if that name is not empty
\* and not "Documentation"; otherwise it returns the empty list.
C18_SynthesizedFromPathSegment ==
    (inf_pc = "done" /\ inf_chunks # <<>>
       /\ \A i \in 1..Len(all_modules) :
             all_modules[i].Description = <<"Documentation", "section:", "...">>) =>
        LET first_chunk == inf_chunks[1]
            segment == Last(Split(urlparse(first_chunk.url).path))
            name == IF first_chunk.title # <<>> THEN first_chunk.title ELSE segment
        IN  IF name # <<>> /\ name # <<"Documentation">>
            THEN /\ Len(all_modules) = 1
                 /\ all_modules[1].module = name
            ELSE all_modules = <<>>

\* C18, amended: the name is the first chunk's title or else what follows the
\* last "/" of its URL as a text -- the host when the URL has no path, and
\* the query with the last segment when it has one.
C18_SynthesizedFromUrlText ==
    (inf_pc = "done" /\ inf_chunks # <<>>
       /\ \A i \in 1..Len(all_modules) :
             all_modules[i].Description = <<"Documentation", "section:", "...">>) =>
        LET first_chunk == inf_chunks[1]
            after_slash == SubSeq(first_chunk.url.s,
                                  (CHOOSE i \in 0..Len(first_chunk.url.s) :
                                      /\ i > 0 => first_chunk.url.s[i] = "/"
                                      /\ \A j \in (i + 1)..Len(first_chunk.url.s) :
                                            first_chunk.url.s[j] # "/"
                                      /\ i = 0 => "/" \notin Range(first_chunk.url.s)) + 1,
                                  Len(first_chunk.url.s))
            name == IF first_chunk.title # <<>> THEN first_chunk.title ELSE after_slash
        IN  IF name # <<>> /\ name # <<"Documentation">>
            THEN /\ Len(all_modules) = 1
                 /\ all_modules[1].module = name
                 /\ all_modules[1].Submodules = <<>>
            ELSE all_modules = <<>>

\* Every call found nothing and the first chunk, without a title, is of a URL
\* without a path: the module returned is named by the host.
C18_Witness ==
    /\ inf_pc = "done"
    /\ Len(inf_chunks) >= 2
    /\ inf_chunks[1].title = <<>>
    /\ urlparse(inf_chunks[1].url).path = <<>>
    /\ Retried(llm_log) # <<>>
    /\ Len(all_modules) = 1
    /\ all_modules[1].module = urlparse(inf_chunks[1].url).netloc

-----------------------------------------------------------------------------
(* Claims about deduplicate, checked under SpecDeduplicate.                *)

\* An answer without a group of two indices of the batch and without a keep
\* index of the batch.
NothingUsable(answer, n) ==
    /\ \A g \in 1..Len(answer.duplicates) :
          Cardinality({k \in 1..Len(answer.duplicates[g]) :
                          answer.duplicates[g][k] \in 1..n}) <= 1
    /\ answer.keep \cap (1..n) = {}

\* C13: the list deduplicate returns holds no two modules of the same name,
\* for every input, when the model call fails or returns no groups and phase 2
\* passes the result of phase 1 through.
C13_DistinctNames ==
    (/\ p2_pc = "done"
     /\ \A k \in 1..Len(p2_log) :
           \/ p2_log[k].answer.raises
           \/ p2_log[k].answer.malformed
           \/ p2_log[k].answer.duplicates = <<>> /\ p2_log[k].answer.keep = {}) =>
        \A a, b \in 1..Len(p2_result) : a # b => p2_result[a].module # p2_result[b].module

\* C19: in phase 2 a batch whose call or whose processing raises, or whose
\* answer holds no usable group and no usable keep index, is returned as it
\* was given, and the next batch is processed: the k-th call is about the
\* k-th batch of ten, and the result is made of the outputs in order.
C19_BatchPassesThrough ==
    /\ \A k \in 1..Len(p2_log) :
          /\ p2_log[k].batch
               = SubSeq(p2_modules, 10 * (k - 1) + 1,
                        IF 10 * k < Len(p2_modules) THEN 10 * k ELSE Len(p2_modules))
          /\ (\/ p2_log[k].answer.raises
              \/ p2_log[k].answer.malformed
              \/ NothingUsable(p2_log[k].answer, Len(p2_log[k].batch))) =>
                p2_log[k].output = p2_log[k].batch
    /\ (p2_pc = "done" /\ Len(p2_modules) > 1) =>
          /\ \A k \in 1..Len(p2_log) : Len(p2_log[k].batch) > 1
          /\ 10 * Len(p2_log) >= Len(p2_modules) - 1
          /\ \E tail \in {<<>>, <<Last(p2_modules)>>} :
                p2_result
                  = (IF Len(p2_log) >= 1 THEN p2_log[1].output ELSE <<>>)
                    \o (IF Len(p2_log) >= 2 THEN p2_log[2].output ELSE <<>>)
                    \o tail
          /\ Len(p2_log) <= 2

\* Twelve modules went through phase 2: the call about the first ten raised
\* and they were passed through, then the last two were merged.
C19_Witness ==
    /\ p2_pc = "done"
    /\ Len(p2_modules) = 12
    /\ Len(p2_log) = 2
    /\ p2_log[1].answer.raises
    /\ p2_log[2].answer.duplicates = << <<1, 2>> >>
    /\ Len(p2_result) = 11
    /\ SubSeq(p2_result, 1, 10) = SubSeq(p2_modules, 1, 10)

-----------------------------------------------------------------------------
(* The modules that leave infer_modules and deduplicate: one call of       *)
(* either, on any of its inputs.                                           *)

SpecModulesInit == SpecInferInit \/ SpecDeduplicateInit

ModulesNext == InferNext \/ DeduplicateNext

SpecModules == SpecModulesInit /\ [][ModulesNext]_vars

\* f"Documentation for {module_name}"
Placeholder(name) == <<"Documentation", "for">> \o name

\* A module with a name and a Description.
WellFormed(m) == m.module # <<>> /\ m.Description # <<>>

\* The module is an entry of some answer, put in shape: its name without the
\* white space around it, its Description likewise, or the placeholder when
\* the answer gave none.
FromAnswer(m) ==
    \E answer \in Answers : \E k \in 1..Len(answer.entries) :
        LET e == answer.entries[k]
        IN  /\ e.kind = "dict"
            /\ m.module = Strip(e.module)
            /\ m.Description = IF Strip(e.Description) = <<>>
                               THEN Placeholder(m.module)
                               ELSE Strip(e.Description)

\* C12: every module infer_modules returns and every module deduplicate
\* returns has a name and a Description that are not empty, the Description
\* being "Documentation for <name>" when the model gave none; no merge, of
\* phase 1 or of phase 2, produces a module without a name.
C12_NamedAndDescribed ==
    /\ \A k \in 1..Len(all_modules) :
          /\ WellFormed(all_modules[k])
          /\ Strip(all_modules[k].module) = all_modules[k].module
    /\ inf_pc = "done" =>
          \/ \A k \in 1..Len(all_modules) : FromAnswer(all_modules[k])
          \/ /\ Len(all_modules) = 1
             /\ all_modules[1].module \in {inf_chunks[1].title, Last(Split(inf_chunks[1].url.s))}
    /\ \A k \in 1..Len(merged) : WellFormed(merged[k])
    /\ dedup_pc = "inner" => WellFormed(current_module)
    /\ \A k \in 1..Len(p2_log) :
          \A j \in 1..Len(p2_log[k].output) : WellFormed(p2_log[k].output[j])
    /\ \A k \in 1..Len(p2_result) : WellFormed(p2_result[k])

\* infer_modules returned a module to which the model gave a name with white
\* space around it, and one to which it gave no Description.
C12_Witness ==
    /\ inf_pc = "done"
    /\ \E k \in 1..Len(all_modules) :
          /\ all_modules[k].module = <<"Billing", "Management">>
          /\ all_modules[k].Description = Placeholder(<<"Billing", "Management">>)
    /\ \E k \in 1..Len(all_modules) :
          /\ all_modules[k].module = <<"Billing">>
          /\ all_modules[k].Description = <<"Handles", "invoices">>

-----------------------------------------------------------------------------
(* Claims about the order and the end of a crawl.                          *)

\* A crawl with room for one page more than the other crawls have.
DeepCrawlInit ==
    /\ max_pages = MaxMaxPages + 1
    /\ start_urls = <<>>
    /\ visited = {}
    /\ pages = <<>>
    /\ queue = <<>>
    /\ current_url = Url("", <<>>)
    /\ crawl_pc = "idle"
    /\ gets = <<>>
    /\ link_sets = <<>>

SpecDeepCrawlInit ==
    DeepCrawlInit /\ LinksIdle /\ ChunkIdle /\ DedupIdle /\ PipeIdle /\ InferIdle /\ P2Idle

SpecDeepCrawl == SpecDeepCrawlInit /\ [][CrawlNext]_vars

\* The URL under which fetch_page gets what crawl queued for a URL: line 146
\* or 174, then line 100.
PageOf(url) == _normalize_url(_normalize_url(url))

\* The pages within k links of the seeds, by the links read so far.
RECURSIVE Within(_)
Within(k) ==
    IF k = 0 THEN {PageOf(start_urls[i]) : i \in 1..Len(start_urls)}
    ELSE Within(k - 1)
         \cup UNION {{PageOf(link) : link \in link_sets[p]} :
                       p \in {n \in 1..Len(link_sets) : pages[n].url \in Within(k - 1)}}

\* The link-distance of a page from the seeds.
Distance(url) ==
    CHOOSE k \in 0..Len(pages) : url \in Within(k) /\ \A j \in 0..(k - 1) : url \notin Within(j)

\* What is left of a crawl: whether it has yet to begin, the pages the budget
\* still allows, the length of the queue, and the steps left of the
\* iteration (the fetch, then the loop test, then nothing).
Remaining ==
    << IF crawl_pc = "idle" THEN 1 ELSE 0,
       max_pages - Len(pages),
       Len(queue),
       CASE crawl_pc = "fetch" -> 2
         [] crawl_pc \in {"idle", "loop"} -> 1
         [] OTHER -> 0 >>

\* The lexicographic order on such tuples of naturals.
LexLess(m, n) ==
    \E k \in 1..Len(m) : m[k] < n[k] /\ \A j \in 1..(k - 1) : m[j] = n[j]

\* C14: within one crawl a URL whose fetch ended in an error is not fetched
\* again: at most one GET is issued for it.
C14_FailedUrlNotFetchedAgain ==
    \A i, j \in 1..Len(gets) :
        (i < j /\ gets[i].status = "error") => gets[j].url # gets[i].url

\* C15: the pages of the result stand in non-decreasing link-distance from
\* the seeds, whatever the links and whichever fetches fail.
C15_BreadthFirst ==
    \A i, j \in 1..Len(pages) :
        (i < j /\ crawl_pc = "done") => Distance(pages[i].url) <= Distance(pages[j].url)

\* C16: the queue starts as the normalized seeds without repetition, and at
\* no point of the crawl holds a URL twice.
C16_QueueWithoutRepetition ==
    \A i, j \in 1..Len(queue) : i # j => queue[i] # queue[j]

\* C20: crawl terminates, whatever the seeds, the budget, the links of the
\* pages and the fetches that fail: every step of crawl makes what is left
\* of it smaller in a well-founded order, in which the pages the budget still
\* allows come before the length of the queue, since links are queued only
\* when a page is appended; what is left is never negative.
C20_CrawlTerminates ==
    [][/\ LexLess(Remaining', Remaining)
       /\ \A k \in 1..4 : Remaining[k] >= 0 /\ Remaining'[k] >= 0]_vars

\* A crawl returned after a fetch failed and after a page linked back to a
\* page already visited, with budget left.
C20_Witness ==
    /\ crawl_pc = "done"
    /\ \E i \in 1..Len(gets) : gets[i].status = "error"
    /\ \E p \in 1..Len(link_sets) : \E link \in link_sets[p] : PageOf(link) \in visited
    /\ Len(pages) < max_pages

-----------------------------------------------------------------------------
(* Claims about what phase 2 of deduplicate keeps, under SpecDeduplicate.  *)

\* The module is in the list as itself, or within a module that has its name
\* or one no shorter (the name a merge leaves) and all the names of its
\* submodules.
Represented(m, ms) ==
    \E k \in 1..Len(ms) :
        \/ ms[k] = m
        \/ /\ ms[k].module = m.module \/ TextLen(ms[k].module) >= TextLen(m.module)
           /\ Keys(m.Submodules) \subseteq Keys(ms[k].Submodules)

\* C21: phase 2 loses no module: whatever the model answers, each module of a
\* batch given to _llm_deduplicate_batch is represented in what it returns.
C21_NoModuleLost ==
    \A k \in 1..Len(p2_log) :
        \A j \in 1..Len(p2_log[k].batch) :
            Represented(p2_log[k].batch[j], p2_log[k].output)

\* C22: deduplication never makes the list longer: phase 1 returns at most
\* as many modules as it was given, every batch of phase 2 likewise, and so
\* does deduplicate as a whole.
C22_NeverGrows ==
    /\ Len(merged) <= Len(modules)
    /\ \A k \in 1..Len(p2_log) : Len(p2_log[k].output) <= Len(p2_log[k].batch)
    /\ p2_pc = "done" => Len(p2_result) <= Len(modules)

-----------------------------------------------------------------------------
(* Claims about what the chunks of a page hold, under SpecChunk.           *)

\* The lines of a text that are not blank, in order.
RECURSIVE NonBlank(_)
NonBlank(ls) ==
    IF ls = <<>> THEN <<>>
    ELSE (IF Head(ls).blank THEN <<>> ELSE <<Head(ls)>>) \o NonBlank(Tail(ls))

\* The lines of one chunk, each with whether it begins or ends the chunk.
Marked(content) ==
    [k \in 1..Len(content) |->
        [line |-> content[k], first |-> k = 1, last |-> k = Len(content)]]

\* The lines of the chunks cut from page n, in the order of the chunks.
RECURSIVE ChunkedLines(_, _)
ChunkedLines(cs, n) ==
    IF cs = <<>> THEN <<>>
    ELSE (IF Head(cs).page_no = n THEN Marked(Head(cs).content) ELSE <<>>)
         \o ChunkedLines(Tail(cs), n)

RECURSIVE NonBlankMarked(_)
NonBlankMarked(ms) ==
    IF ms = <<>> THEN <<>>
    ELSE (IF Head(ms).line.blank THEN <<>> ELSE <<Head(ms)>>) \o NonBlankMarked(Tail(ms))

\* The loop of line 67 has just finished a page that has content.
PageChunked == chunk_pc = "page" /\ page_no > 0 /\ ~IsBlank(page.content)

\* The page of the state has a chunk.
HasChunk == \E i \in 1..Len(chunks) : chunks[i].page_no = page_no

\* C23 as stated: the lines of a page that are not blank are in the chunks
\* of the page once each, in their order and as they were, and the page has
\* at least one chunk.
C23_LinesKeptAsTheyWere ==
    PageChunked =>
        /\ HasChunk
        /\ LET kept == NonBlankMarked(ChunkedLines(chunks, page_no))
           IN  [k \in 1..Len(kept) |-> kept[k].line] = NonBlank(page.content)

\* C23, amended: the lines of a page that are not blank are in the chunks of
\* the page once each and in their order, as they were but for the white
\* space that begins the first line of a chunk and that ends its last line,
\* which the strip of lines 86 and 102 removes; the page has at least one
\* chunk.
C23_LinesKeptButTrimmed ==
    PageChunked =>
        /\ HasChunk
        /\ LET kept == NonBlankMarked(ChunkedLines(chunks, page_no))
               was  == NonBlank(page.content)
           IN  /\ Len(kept) = Len(was)
               /\ \A k \in 1..Len(kept) :
                     /\ kept[k].line.tokens = was[k].tokens
                     /\ kept[k].line.lead = (was[k].lead /\ ~kept[k].first)
                     /\ kept[k].line.trail = (was[k].trail /\ ~kept[k].last)

\* A page with a blank line between two lines of text was cut into two chunks
\* or more; one of its lines kept the white space before it and another, at
\* the start of a chunk, lost it.
C23_Witness ==
    /\ PageChunked
    /\ Cardinality({i \in 1..Len(chunks) : chunks[i].page_no = page_no}) >= 2
    /\ \E k \in 2..(Len(page.content) - 1) :
          page.content[k].blank /\ ~page.content[k - 1].blank /\ ~page.content[k + 1].blank
    /\ LET kept == NonBlankMarked(ChunkedLines(chunks, page_no))
           was  == NonBlank(page.content)
       IN  /\ \E k \in 1..Len(kept) : kept[k].line.lead
           /\ \E k \in 1..Len(kept) : was[k].lead /\ ~kept[k].line.lead

-----------------------------------------------------------------------------
(* Claim about the hosts a crawl reaches, under SpecCrawl.                 *)

\* The hosts of the seed URLs.
SeedHosts == {urlparse(start_urls[i]).netloc : i \in 1..Len(start_urls)}

====
